---- MODULE Spec2Model ----
(***************************************************************************)
(* LocalLLMContentGenerator: the adapter between the neutral               *)
(* generate-content contract and an OpenAI-compatible chat-completion      *)
(* endpoint (packages/core/src/core/localLLMContentGenerator.ts).          *)
(*                                                                         *)
(* JavaScript values are tagged records.  A string is a sequence of        *)
(* one-character strings, so that its length, its emptiness and its JSON   *)
(* serialisation are computed rather than assumed.  Temperature and topP   *)
(* are fractions in the source; the model holds them in tenths.            *)
(***************************************************************************)
EXTENDS Integers, Sequences, FiniteSets, TLC

VARIABLES
    adapter,  \* the instance's endpoint, model and apiKey, set by the constructor
    op,       \* per call: the public method invoked ("none" before the call)
    pc,       \* per call: where the asynchronous method stands
    req,      \* per call: the request the caller passed
    sent,     \* per call: the bodies POSTed to {endpoint}/chat/completions
    http,     \* per call: what fetch settled with
    result,   \* per call: the value the method's promise resolved with
    error,    \* per call: the message of the error the promise rejected with
    yielded,  \* per call: the items the returned async generator has yielded
    fnArg,    \* argument of the private function under study
    fnRes,    \* its result
    fnPc      \* "ready" before it is applied, "done" after ("off": not under study)

callVars == <<op, pc, req, sent, http, result, error, yielded>>
fnVars == <<fnArg, fnRes, fnPc>>
vars == <<adapter, op, pc, req, sent, http, result, error, yielded, fnArg, fnRes, fnPc>>

---------------------------------------------------------------------------
(* Bounds of the model *)

\* concurrent calls on the one adapter instance
NumCalls == 2
\* longest array of parts given to extractText
MaxItems == 2
\* longest array of turns in request.contents
MaxTurns == 2
\* longest tool_calls array in a wire response
MaxToolCalls == 2
\* longest string given to countTokens
MaxTextLen == 4

---------------------------------------------------------------------------
(* JavaScript values *)

Absent == [t |-> "absent"]
Null == [t |-> "null"]
Str(s) == [t |-> "str", s |-> s]
Num(n) == [t |-> "num", n |-> n]
Arr(items) == [t |-> "arr", items |-> items]
RoleName(name) == [t |-> "role", name |-> name]
\* an object of the neutral side: a turn (role, parts) or a part (text, or
\* neither text nor parts: a functionCall or functionResponse part)
Obj(role, text, parts) == [t |-> "obj", role |-> role, text |-> text, parts |-> parts]

\* JavaScript truthiness, as the conditions `if (x)` and `x || d` test it
Truthy(v) ==
    CASE v.t = "absent" -> FALSE
      [] v.t = "null" -> FALSE
      [] v.t = "str" -> v.s # <<>>
      [] v.t = "num" -> v.n # 0
      [] OTHER -> TRUE

SeqsUpTo(S, n) == UNION {[1..k -> S] : k \in 0..n}

---------------------------------------------------------------------------
(* extractText *)

RECURSIVE extractText(_)
RECURSIVE joinTexts(_)

\* input.map(item => this.extractText(item)).filter(text => text).join('')
joinTexts(items) ==
    IF items = <<>> THEN <<>>
    ELSE LET text == extractText(Head(items))
         IN (IF text # <<>> THEN text ELSE <<>>) \o joinTexts(Tail(items))

\* a plausible slip: `'text' in input` where the source tests `input.text`
objectTextByPresence(input) ==
    IF input.text.t = "str" THEN input.text.s
    ELSE IF Truthy(input.parts) THEN extractText(input.parts)
    ELSE <<>>

\* the object branch: if (input.text) return input.text;
\*                    if (input.parts) return this.extractText(input.parts);
objectText(input) ==
    IF Truthy(input.text) THEN input.text.s
    ELSE IF Truthy(input.parts) THEN extractText(input.parts)
    ELSE <<>>

extractText(input) ==
    IF input.t = "str" THEN input.s
    ELSE IF input.t = "arr" THEN joinTexts(input.items)
    ELSE IF input.t = "obj" THEN objectText(input)
    ELSE <<>>

\* the inputs extractText is studied on
Texts == {<<>>, <<"a">>, <<"b">>}
TextFields == {Absent} \cup {Str(s) : s \in Texts}
FlatParts == {Null, Str(<<"a">>)} \cup {Obj(Absent, tf, Absent) : tf \in TextFields}
PartArrays == {Arr(q) : q \in SeqsUpTo(FlatParts, MaxItems)}
NestedParts ==
    {Obj(Absent, tf, p) : tf \in TextFields,
                          p \in PartArrays \cup {Null, Str(<<>>), Str(<<"a">>)}}
ExtractInputs == FlatParts \cup PartArrays \cup NestedParts

---------------------------------------------------------------------------
(* The calls are idle while a private function is studied on its own *)

Calls == 1..NumCalls
NoValue == [t |-> "none"]

\* what the constructor may be given: apiKey is optional
Adapters ==
    {[endpoint |-> "http://localhost:1234/v1", model |-> "local-model", apiKey |-> k] :
        k \in {Absent, Str(<<"k">>)}}

CallsIdle ==
    /\ adapter \in Adapters
    /\ op = [c \in Calls |-> "none"]
    /\ pc = [c \in Calls |-> "idle"]
    /\ req = [c \in Calls |-> NoValue]
    /\ sent = [c \in Calls |-> <<>>]
    /\ http = [c \in Calls |-> NoValue]
    /\ result = [c \in Calls |-> NoValue]
    /\ error = [c \in Calls |-> NoValue]
    /\ yielded = [c \in Calls |-> <<>>]

InitExtract ==
    /\ CallsIdle
    /\ fnArg \in ExtractInputs
    /\ fnRes = NoValue
    /\ fnPc = "ready"

ApplyExtractText ==
    /\ fnPc = "ready"
    /\ fnRes' = Str(extractText(fnArg))
    /\ fnPc' = "done"
    /\ UNCHANGED <<fnArg, adapter, callVars>>

SpecExtract == InitExtract /\ [][ApplyExtractText]_vars

\* C10 (as stated): whenever the input object has a text field, extractText
\* returns that field, also when the field is the empty string.
C10_TextFieldAlwaysWins ==
    (fnPc = "done" /\ fnArg.t = "obj" /\ fnArg.text.t = "str")
        => fnRes = fnArg.text

\* C10 (amended): an object with a non-empty text field yields that field and
\* never the text of its parts; an object whose text field is the empty string
\* yields what extractText yields for its parts when parts is present and
\* truthy, and the empty string otherwise.
C10_NonEmptyTextWins ==
    (fnPc = "done" /\ fnArg.t = "obj" /\ fnArg.text.t = "str")
        => IF fnArg.text.s # <<>> THEN fnRes = fnArg.text
           ELSE IF Truthy(fnArg.parts) THEN fnRes = Str(extractText(fnArg.parts))
           ELSE fnRes = Str(<<>>)

\* an object with non-empty text and parts holding other non-empty text
C10_Witness ==
    /\ fnPc = "done"
    /\ fnArg = Obj(Absent, Str(<<"a">>), Arr(<<Obj(Absent, Str(<<"b">>), Absent)>>))
    /\ fnRes = Str(<<"a">>)

---------------------------------------------------------------------------
(* convertToOpenAIFormat *)

\* request.config?.<field>
configField(request, field) ==
    IF request.config.t = "absent" THEN Absent ELSE request.config[field]

\* a plausible slip: the turn is forwarded whether or not it has text
turnMessageKeepEmpty(content) ==
    IF content.t = "str" THEN <<[role |-> "user", content |-> content.s]>>
    ELSE IF content.t = "obj" /\ content.role.t # "absent"
    THEN <<[role |-> IF content.role.name = "model" THEN "assistant" ELSE content.role.name,
            content |-> extractText(content.parts)]>>
    ELSE <<>>

\* the body of `for (const content of contents)`: the messages one turn adds
turnMessage(content) ==
    IF content.t = "str" THEN <<[role |-> "user", content |-> content.s]>>
    ELSE IF content.t = "obj" /\ content.role.t # "absent"
    THEN LET role == IF content.role.name = "model" THEN "assistant" ELSE content.role.name
             text == extractText(content.parts)
         IN IF text # <<>> THEN <<[role |-> role, content |-> text]>> ELSE <<>>
    ELSE <<>>

RECURSIVE turnMessages(_)
turnMessages(contents) ==
    IF contents = <<>> THEN <<>>
    ELSE turnMessage(Head(contents)) \o turnMessages(Tail(contents))

\* Array.isArray(request.contents) ? request.contents : [request.contents],
\* under `if (request.contents)`
contentsList(request) ==
    IF ~Truthy(request.contents) THEN <<>>
    ELSE IF request.contents.t = "arr" THEN request.contents.items
    ELSE <<request.contents>>

\* the defaults of the sampling parameters (temperature and top_p in tenths)
DefaultMaxTokens == 4096
DefaultTemperature == 7
DefaultTopP == 10

\* value || fallback
orDefault(value, fallback) == IF Truthy(value) THEN value.n ELSE fallback

convertToOpenAIFormat(model, request) ==
    LET si == configField(request, "systemInstruction")
        system == IF Truthy(si)
                  THEN <<[role |-> "system", content |-> extractText(si)]>>
                  ELSE <<>>
    IN [model |-> model,
        messages |-> system \o turnMessages(contentsList(request)),
        max_tokens |-> orDefault(configField(request, "maxOutputTokens"), DefaultMaxTokens),
        temperature |-> orDefault(configField(request, "temperature"), DefaultTemperature),
        top_p |-> orDefault(configField(request, "topP"), DefaultTopP),
        stream |-> FALSE]

---------------------------------------------------------------------------
(* convertToolsToOpenAIFormat: defined by the class, called by none of its methods *)

ExecutePrefix == <<"E", "x", "e", "c", "u", "t", "e", " ">>
EmptyProperties == [t |-> "schema", keys |-> {}]

\* the wire function spec of one function declaration
functionSpec(func) ==
    LET hasParameters == func.parameters.t # "absent"
    IN [type |-> "function",
        function |->
          [name |-> func.name,
           description |-> IF Truthy(func.description) THEN func.description.s
                           ELSE ExecutePrefix \o func.name,
           parameters |->
             [type |-> "object",
              properties |-> IF hasParameters /\ Truthy(func.parameters.properties)
                             THEN func.parameters.properties ELSE EmptyProperties,
              required |-> IF hasParameters /\ Truthy(func.parameters.required)
                           THEN func.parameters.required ELSE Arr(<<>>)]]]

RECURSIVE functionSpecs(_)
functionSpecs(funcs) ==
    IF funcs = <<>> THEN <<>>
    ELSE <<functionSpec(Head(funcs))>> \o functionSpecs(Tail(funcs))

RECURSIVE convertToolsToOpenAIFormat(_)
convertToolsToOpenAIFormat(geminiTools) ==
    IF geminiTools = <<>> THEN <<>>
    ELSE (IF Truthy(Head(geminiTools).functionDeclarations)
          THEN functionSpecs(Head(geminiTools).functionDeclarations.items)
          ELSE <<>>) \o convertToolsToOpenAIFormat(Tail(geminiTools))

---------------------------------------------------------------------------
(* The requests convertToOpenAIFormat is studied on *)

TextPart(s) == Obj(Absent, Str(s), Absent)
\* a functionCall or functionResponse part: neither text nor parts
CallPart == Obj(Absent, Absent, Absent)
Turn(role, parts) == Obj(RoleName(role), Absent, parts)

TurnSpace ==
    { Str(<<>>), Str(<<"a">>),
      Turn("user", Arr(<<TextPart(<<"a">>)>>)),
      Turn("model", Arr(<<TextPart(<<"b">>)>>)),
      Turn("function", Arr(<<TextPart(<<"a">>), TextPart(<<"b">>)>>)),
      Turn("user", Arr(<<CallPart>>)),
      Turn("model", Arr(<<TextPart(<<>>), CallPart>>)),
      Turn("user", Absent),
      Obj(Absent, Absent, Arr(<<TextPart(<<"a">>)>>)) }

ContentsSpace ==
    {Absent} \cup TurnSpace \cup {Arr(q) : q \in SeqsUpTo(TurnSpace, MaxTurns)}

Schema(keys) == [t |-> "schema", keys |-> keys]
Func(name, description, parameters) ==
    [name |-> name, description |-> description, parameters |-> parameters]
Tool(decls) == [functionDeclarations |-> decls]
FooName == <<"f", "o", "o">>
BarName == <<"b", "a", "r">>

ToolsSpace ==
    { Absent,
      Arr(<<>>),
      Arr(<<Tool(Arr(<<Func(FooName, Absent, Absent)>>))>>),
      Arr(<<Tool(Absent),
            Tool(Arr(<<Func(FooName, Str(<<"d">>),
                            [t |-> "obj", properties |-> Schema({"x"}),
                             required |-> Arr(<<"x">>)]),
                       Func(BarName, Str(<<>>),
                            [t |-> "obj", properties |-> Absent,
                             required |-> Absent])>>))>>) }

Config(si, maxTokens, temperature, topP, tools) ==
    [t |-> "config", systemInstruction |-> si, maxOutputTokens |-> maxTokens,
     temperature |-> temperature, topP |-> topP, tools |-> tools]

ConfigSpace ==
    {Absent} \cup
    {Config(si, mt, te, tp, tools) :
        si \in {Absent, Str(<<>>), Str(<<"a">>), Obj(Absent, Absent, Arr(<<TextPart(<<"b">>)>>))},
        mt \in {Absent, Num(0), Num(256)},
        te \in {Absent, Num(0), Num(2)},
        tp \in {Absent, Num(0), Num(9)},
        tools \in ToolsSpace}

Request(contents, config) == [contents |-> contents, config |-> config]

\* every contents with no config, and every config with two fixed contents
RequestSpace ==
    {Request(c, Absent) : c \in ContentsSpace}
    \cup {Request(c, cfg) : c \in {Str(<<"a">>), Arr(<<Turn("user", Arr(<<CallPart>>))>>)},
                             cfg \in ConfigSpace}

InitTranslate ==
    /\ CallsIdle
    /\ fnArg \in RequestSpace
    /\ fnRes = NoValue
    /\ fnPc = "ready"

ApplyConvertToOpenAIFormat ==
    /\ fnPc = "ready"
    /\ fnRes' = convertToOpenAIFormat(adapter.model, fnArg)
    /\ fnPc' = "done"
    /\ UNCHANGED <<fnArg, adapter, callVars>>

SpecTranslate == InitTranslate /\ [][ApplyConvertToOpenAIFormat]_vars

\* the messages of the payload that come from request.contents: all but the
\* system message that a truthy systemInstruction puts first
turnDerived(request, payload) ==
    IF Truthy(configField(request, "systemInstruction"))
    THEN Tail(payload.messages) ELSE payload.messages

\* C3: when config.tools is present, the payload carries one wire function
\* spec per function declaration of each tool.
C3_PayloadCarriesTools ==
    (fnPc = "done" /\ configField(fnArg, "tools").t = "arr")
        => /\ "tools" \in DOMAIN fnRes
           /\ fnRes.tools = convertToolsToOpenAIFormat(configField(fnArg, "tools").items)

\* C4: max_tokens, temperature and top_p are the request's values whenever the
\* request supplies them (0 included), the defaults only when the field is
\* absent; stream is false.
C4_SamplingFollowsRequest ==
    fnPc = "done" =>
        LET mt == configField(fnArg, "maxOutputTokens")
            te == configField(fnArg, "temperature")
            tp == configField(fnArg, "topP")
        IN /\ fnRes.max_tokens = (IF mt.t = "num" THEN mt.n ELSE DefaultMaxTokens)
           /\ fnRes.temperature = (IF te.t = "num" THEN te.n ELSE DefaultTemperature)
           /\ fnRes.top_p = (IF tp.t = "num" THEN tp.n ELSE DefaultTopP)
           /\ fnRes.stream = FALSE

\* C9 (as stated): no message that comes from a turn of contents, bare string
\* or structured, is forwarded with empty content.
C9_NoEmptyTurnMessage ==
    fnPc = "done" =>
        \A k \in DOMAIN turnDerived(fnArg, fnRes) :
            turnDerived(fnArg, fnRes)[k].content # <<>>

\* C9 (amended): the messages that come from contents are, in the order of
\* their turns, one per bare string (forwarded as it is, the empty string
\* too) and one per structured turn that has a role and non-empty extracted
\* text; a structured turn with no extractable text adds no message.
C9_StructuredEmptyDropped ==
    fnPc = "done" =>
        LET turns == contentsList(fnArg)
            msgs == turnDerived(fnArg, fnRes)
            bare(i) == turns[i].t = "str"
            structured(i) == turns[i].t = "obj" /\ turns[i].role.t = "role"
            kept == {i \in DOMAIN turns :
                        bare(i) \/ (structured(i) /\ extractText(turns[i].parts) # <<>>)}
            rank(i) == Cardinality({j \in kept : j <= i})
        IN /\ Len(msgs) = Cardinality(kept)
           /\ \A i \in kept :
                 msgs[rank(i)].content =
                    (IF bare(i) THEN turns[i].s ELSE extractText(turns[i].parts))
           /\ \A i \in kept : msgs[rank(i)].content = <<>> => bare(i)

\* a turn holding only a function-call part is dropped, the next one is kept
C9_Witness ==
    /\ fnPc = "done"
    /\ fnArg.contents = Arr(<<Turn("user", Arr(<<CallPart>>)),
                              Turn("model", Arr(<<TextPart(<<"b">>)>>))>>)
    /\ fnRes.messages = <<[role |-> "assistant", content |-> <<"b">>]>>

---------------------------------------------------------------------------
(* convertFromOpenAIFormat *)

Ok(value) == [t |-> "ok", value |-> value]
Throw(message) == [t |-> "throw", message |-> message]

LowerCase == <<"a", "c", "e", "g", "h", "l", "n", "o", "p", "s", "t">>
UpperCase == <<"A", "C", "E", "G", "H", "L", "N", "O", "P", "S", "T">>

\* String.prototype.toUpperCase, on the letters finish reasons are written in
toUpperCase(s) ==
    [i \in DOMAIN s |->
        IF \E k \in DOMAIN LowerCase : LowerCase[k] = s[i]
        THEN UpperCase[CHOOSE k \in DOMAIN LowerCase : LowerCase[k] = s[i]]
        ELSE s[i]]

JsonObject(fields) == [t |-> "object", fields |-> fields]
Digits == <<"0", "1", "2", "3", "4", "5", "6", "7", "8", "9">>
IsDigit(c) == \E d \in DOMAIN Digits : Digits[d] = c
DigitValue(c) == (CHOOSE d \in DOMAIN Digits : Digits[d] = c) - 1

\* JSON.parse on the texts a tool call's arguments are drawn from: the empty
\* object, an object of one one-letter key and one digit, a digit; any other
\* text of ArgumentTexts is not JSON and JSON.parse throws a SyntaxError
JSONparse(s) ==
    IF s = <<"{", "}">> THEN Ok(JsonObject({}))
    ELSE IF /\ Len(s) = 7
            /\ <<s[1], s[2], s[4], s[5], s[7]>> = <<"{", "\"", "\"", ":", "}">>
            /\ IsDigit(s[6])
    THEN Ok(JsonObject({<<s[3], DigitValue(s[6])>>}))
    ELSE IF Len(s) = 1 /\ IsDigit(s[1]) THEN Ok(Num(DigitValue(s[1])))
    ELSE Throw("SyntaxError")

\* value?.<field>
field(value, name) ==
    IF value.t \in {"absent", "null"} THEN Absent ELSE value[name]

\* n || 0
orZero(value) == IF Truthy(value) THEN value.n ELSE 0

usageMetadata(openaiResponse) ==
    LET usage == openaiResponse.usage
    IN [promptTokenCount |-> orZero(field(usage, "prompt_tokens")),
        candidatesTokenCount |-> orZero(field(usage, "completion_tokens")),
        totalTokenCount |-> orZero(field(usage, "total_tokens"))]

StopText == <<"s", "t", "o", "p">>
STOP == <<"S", "T", "O", "P">>

Response(parts, finishReason, usage, text, functionCalls) ==
    [candidates |-> <<[content |-> [parts |-> parts, role |-> "model"],
                       finishReason |-> finishReason,
                       index |-> 0]>>,
     usageMetadata |-> usage,
     text |-> text,
     functionCalls |-> functionCalls]

\* a plausible slip: the tool-call branch keeps the wire finish reason and
\* reports every tool call it can parse, not the first alone
toolCallResponseAll(openaiResponse, text, finishReason, toolCalls) ==
    LET arguments(i) == field(field(toolCalls[i], "function"), "arguments")
        parsed(i) == JSONparse(IF Truthy(arguments(i)) THEN arguments(i).s ELSE <<"{", "}">>)
        call(i) == [name |-> field(field(toolCalls[i], "function"), "name"),
                    args |-> parsed(i).value]
    IN IF \E i \in DOMAIN toolCalls : parsed(i).t = "throw" THEN Throw("SyntaxError")
       ELSE Ok(Response(
                (IF text # <<>> THEN <<[text |-> text]>> ELSE <<>>)
                    \o [i \in DOMAIN toolCalls |-> [functionCall |-> call(i)]],
                toUpperCase(finishReason),
                usageMetadata(openaiResponse),
                text,
                [i \in DOMAIN toolCalls |-> call(i)]))

\* the branch `if (toolCalls && toolCalls.length > 0)`
toolCallResponse(openaiResponse, text, finishReason, toolCalls) ==
    LET functionCall == toolCalls[1]
        arguments == field(field(functionCall, "function"), "arguments")
        parsed == JSONparse(IF Truthy(arguments) THEN arguments.s ELSE <<"{", "}">>)
    IN IF parsed.t = "throw" THEN parsed
       ELSE LET functionCallPart ==
                    [functionCall |->
                        [name |-> field(field(functionCall, "function"), "name"),
                         args |-> parsed.value]]
            IN Ok(Response(
                    IF text # <<>> THEN <<[text |-> text], functionCallPart>>
                    ELSE <<functionCallPart>>,
                    STOP,
                    usageMetadata(openaiResponse),
                    text,
                    <<functionCallPart.functionCall>>))

\* the regular text response
textResponse(openaiResponse, text, finishReason) ==
    Ok(Response(<<[text |-> text]>>, toUpperCase(finishReason),
                usageMetadata(openaiResponse), text, <<>>))

\* what follows the check of choice
decodeChoice(openaiResponse, choice) ==
    LET content == field(field(choice, "message"), "content")
        text == IF Truthy(content) THEN content.s ELSE <<>>
        finishReason == IF Truthy(choice.finish_reason) THEN choice.finish_reason.s
                        ELSE StopText
        toolCalls == field(field(choice, "message"), "tool_calls")
    IN IF Truthy(toolCalls) /\ Len(toolCalls.items) > 0
       THEN toolCallResponse(openaiResponse, text, finishReason, toolCalls.items)
       ELSE textResponse(openaiResponse, text, finishReason)

\* openaiResponse.choices?.[0] (of a null response, which the caller rejects
\* with a TypeError before it gets here: none)
firstChoice(openaiResponse) ==
    LET choices == field(openaiResponse, "choices")
    IN IF choices.t = "arr" /\ Len(choices.items) > 0 THEN choices.items[1] ELSE Absent

\* a plausible slip: a response without a primary choice decodes to a
\* response without candidates
convertFromOpenAIFormatLenient(openaiResponse) ==
    IF openaiResponse.t = "null" THEN Throw("TypeError")
    ELSE IF ~Truthy(firstChoice(openaiResponse))
    THEN Ok([candidates |-> <<>>, usageMetadata |-> usageMetadata(openaiResponse),
             text |-> <<>>, functionCalls |-> <<>>])
    ELSE decodeChoice(openaiResponse, firstChoice(openaiResponse))

convertFromOpenAIFormat(openaiResponse) ==
    IF openaiResponse.t = "null" THEN Throw("TypeError")
    ELSE IF ~Truthy(firstChoice(openaiResponse))
    THEN Throw("No choices in OpenAI response")
    ELSE decodeChoice(openaiResponse, firstChoice(openaiResponse))

---------------------------------------------------------------------------
(* The wire responses convertFromOpenAIFormat is studied on *)

EmptyObjectText == <<"{", "}">>
XOneText == <<"{", "\"", "x", "\"", ":", "1", "}">>
TruncatedText == <<"{", "\"", "x", "\"", ":">>
ArgumentTexts == {EmptyObjectText, XOneText, TruncatedText, <<>>}

ToolCall(name, arguments) ==
    [t |-> "toolcall", function |-> [t |-> "function", name |-> name, arguments |-> arguments]]

ToolCallSpace ==
    { [t |-> "toolcall", function |-> Absent],
      ToolCall(Str(FooName), Str(XOneText)),
      ToolCall(Str(FooName), Absent),
      ToolCall(Str(BarName), Str(EmptyObjectText)),
      ToolCall(Str(BarName), Str(TruncatedText)),
      ToolCall(Absent, Str(<<>>)) }

ToolCallsSpace ==
    {Absent} \cup {Arr(q) : q \in SeqsUpTo(ToolCallSpace, MaxToolCalls)}

WireMessage(content, toolCalls) ==
    [t |-> "message", content |-> content, tool_calls |-> toolCalls]
Choice(message, finishReason) ==
    [t |-> "choice", message |-> message, finish_reason |-> finishReason]

FinishReasons ==
    {Absent, Str(StopText), Str(<<"l", "e", "n", "g", "t", "h">>),
     Str(<<"t", "o", "o", "l", "_", "c", "a", "l", "l", "s">>)}

ChoiceSpace ==
    {Choice(Absent, Absent)} \cup
    {Choice(WireMessage(content, tc), fr) :
        content \in {Absent, Null, Str(<<>>), Str(<<"a">>)},
        tc \in ToolCallsSpace,
        fr \in FinishReasons}

Usage(p, c, total) ==
    [t |-> "usage", prompt_tokens |-> p, completion_tokens |-> c, total_tokens |-> total]
UsageSpace == {Absent, Usage(Num(3), Num(2), Num(5)), Usage(Num(0), Absent, Absent)}

Wire(choices, usage) == [t |-> "wire", choices |-> choices, usage |-> usage]

WireSpace ==
    {Null}
    \cup {Wire(ch, u) : ch \in {Absent, Arr(<<>>), Arr(<<Null>>)}, u \in UsageSpace}
    \cup {Wire(Arr(<<ch>>), u) : ch \in ChoiceSpace, u \in UsageSpace}
    \cup {Wire(Arr(<<Choice(WireMessage(Str(<<"a">>), Absent), Absent), ch>>), Absent) :
            ch \in {Null, Choice(WireMessage(Str(<<"b">>), Absent), Str(StopText))}}

InitDecode ==
    /\ CallsIdle
    /\ fnArg \in WireSpace
    /\ fnRes = NoValue
    /\ fnPc = "ready"

ApplyConvertFromOpenAIFormat ==
    /\ fnPc = "ready"
    /\ fnRes' = convertFromOpenAIFormat(fnArg)
    /\ fnPc' = "done"
    /\ UNCHANGED <<fnArg, adapter, callVars>>

SpecDecode == InitDecode /\ [][ApplyConvertFromOpenAIFormat]_vars

\* the tool calls of the wire response's primary choice (none: the empty sequence)
wireToolCalls(openaiResponse) ==
    LET tc == field(field(firstChoice(openaiResponse), "message"), "tool_calls")
    IN IF tc.t = "arr" THEN tc.items ELSE <<>>

\* C2: a neutral response decoded from a wire response with tool calls reports
\* finishReason STOP whatever the wire finish_reason is, and its functionCalls
\* holds exactly one call, the first wire tool call (its name, and its
\* arguments parsed); one decoded from a wire response without tool calls has
\* no functionCalls.
C2_ToolCallsStopWithFirstCall ==
    (fnPc = "done" /\ fnRes.t = "ok") =>
        LET calls == wireToolCalls(fnArg)
            response == fnRes.value
            first == field(calls[1], "function")
        IN IF calls # <<>>
           THEN /\ \A i \in DOMAIN response.candidates :
                      response.candidates[i].finishReason = STOP
                /\ Len(response.functionCalls) = 1
                /\ response.functionCalls[1].name = field(first, "name")
                /\ Ok(response.functionCalls[1].args) =
                      JSONparse(IF Truthy(field(first, "arguments"))
                                THEN field(first, "arguments").s ELSE EmptyObjectText)
           ELSE response.functionCalls = <<>>

\* two tool calls under finish_reason "length": foo({"x":1}) is reported, bar is not
C2_Witness ==
    /\ fnPc = "done"
    /\ wireToolCalls(fnArg) = <<ToolCall(Str(FooName), Str(XOneText)),
                                ToolCall(Str(BarName), Str(EmptyObjectText))>>
    /\ firstChoice(fnArg).finish_reason = Str(<<"l", "e", "n", "g", "t", "h">>)
    /\ fnRes.t = "ok"
    /\ fnRes.value.functionCalls =
          <<[name |-> Str(FooName), args |-> JsonObject({<<"x", 1>>})]>>
    /\ fnRes.value.candidates[1].finishReason = STOP

---------------------------------------------------------------------------
(* countTokens *)

\* the characters JSON.stringify writes for one character of a string
escapedLength(c) == IF c \in {"\"", "\\", "\n"} THEN 2 ELSE 1

RECURSIVE stringLength(_)
stringLength(s) ==
    IF s = <<>> THEN 0 ELSE escapedLength(Head(s)) + stringLength(Tail(s))

RECURSIVE jsonLength(_)
RECURSIVE itemsLength(_)

\* the elements of an array, with the commas between them
itemsLength(items) ==
    IF items = <<>> THEN 0
    ELSE jsonLength(Head(items)) + (IF Len(items) > 1 THEN 1 ELSE 0)
         + itemsLength(Tail(items))

\* JSON.stringify(value).length: a string in quotes, null, an array, or an
\* object of the keys role, text and parts it has ("key":value, comma-separated)
jsonLength(value) ==
    CASE value.t = "str" -> 2 + stringLength(value.s)
      [] value.t = "null" -> 4
      [] value.t = "role" -> 2 + Len(value.name)
      [] value.t = "arr" -> 2 + itemsLength(value.items)
      [] value.t = "obj" ->
            LET present == {k \in {"role", "text", "parts"} : value[k].t # "absent"}
                member(k) == IF k \in present
                             THEN Len(k) + 3 + jsonLength(value[k]) ELSE 0
            IN 2 + member("role") + member("text") + member("parts")
                 + (IF present = {} THEN 0 ELSE Cardinality(present) - 1)

\* Math.ceil(n / 4)
ceilDiv4(n) == (n + 3) \div 4

\* a plausible slip: the length of the text itself, not of its serialisation
countTokensOfText(request) ==
    [totalTokens |->
        ceilDiv4(IF request.contents.t = "str" THEN Len(request.contents.s)
                 ELSE IF Truthy(request.contents) THEN jsonLength(request.contents)
                 ELSE 0)]

countTokens(request) ==
    [totalTokens |->
        ceilDiv4(jsonLength(IF Truthy(request.contents) THEN request.contents
                            ELSE Str(<<>>)))]

\* the contents countTokens is studied on
Abcd == <<"a", "b", "c", "d">>
Abcdefgh == <<"a", "b", "c", "d", "e", "f", "g", "h">>
CountContents ==
    {Absent, Null, Str(Abcd), Str(Abcdefgh)}
    \cup {Str(s) : s \in SeqsUpTo({"a", "\""}, MaxTextLen)}
    \cup {Turn(r, Arr(q)) : r \in {"user", "model"},
                            q \in SeqsUpTo({TextPart(<<"a">>), TextPart(Abcd)}, MaxItems)}
    \cup {Arr(<<Str(<<"a">>), Turn("user", Arr(<<TextPart(<<"b">>)>>))>>)}

InitCount ==
    /\ CallsIdle
    /\ fnArg \in {[contents |-> c] : c \in CountContents}
    /\ fnRes = NoValue
    /\ fnPc = "ready"

ApplyCountTokens ==
    /\ fnPc = "ready"
    /\ fnRes' = countTokens(fnArg)
    /\ fnPc' = "done"
    /\ UNCHANGED <<fnArg, adapter, callVars>>

SpecCount == InitCount /\ [][ApplyCountTokens]_vars

quotesIn(s) == Cardinality({i \in DOMAIN s : s[i] = "\""})

\* C5 (as stated): for string contents, totalTokens is ceil(len/4) with len the
\* number of characters of the text: "abcd" gives 1, "abcdefgh" gives 2.
C5_CeilOfTextLength ==
    (fnPc = "done" /\ fnArg.contents.t = "str") =>
        /\ 4 * fnRes.totalTokens >= Len(fnArg.contents.s)
        /\ 4 * (fnRes.totalTokens - 1) < Len(fnArg.contents.s)

\* C5 (amended): totalTokens is ceil(len/4) with len the length of the JSON
\* serialisation of contents (of "" when contents is absent or empty): for a
\* string, its characters, one more per escaped character, and the two quotes
\* around it.  "abcd" gives 2, "abcdefgh" gives 3, no contents gives 1.
C5_CeilOfSerializedLength ==
    fnPc = "done" =>
        LET c == fnArg.contents
            len == IF c.t = "str" THEN Len(c.s) + quotesIn(c.s) + 2
                   ELSE IF c.t \in {"absent", "null"} THEN 2
                   ELSE jsonLength(c)
        IN /\ 4 * fnRes.totalTokens >= len
           /\ 4 * (fnRes.totalTokens - 1) < len
           /\ c = Str(Abcd) => fnRes.totalTokens = 2
           /\ c = Str(Abcdefgh) => fnRes.totalTokens = 3
           /\ c = Turn("user", Arr(<<TextPart(<<"a">>)>>)) => fnRes.totalTokens = 10

\* the first example of the specification: contents "abcd" counted as 2
C5_Witness ==
    /\ fnPc = "done"
    /\ fnArg.contents = Str(Abcd)
    /\ fnRes.totalTokens = 2

---------------------------------------------------------------------------
(* The public methods, called concurrently on one instance *)

\* what the transport can settle a fetch with: a rejection (network failure),
\* or a response with a status and a body that is JSON or is not
Rejected == [t |-> "rejected"]
HttpResponse(ok, status, body) == [t |-> "response", ok |-> ok, status |-> status, body |-> body]
NotJson == [t |-> "notjson"]
Json(data) == [t |-> "json", data |-> data]

TextWire == Wire(Arr(<<Choice(WireMessage(Str(<<"a">>), Absent), Str(StopText))>>),
                 Usage(Num(3), Num(2), Num(5)))
ToolCallWire ==
    Wire(Arr(<<Choice(WireMessage(Null, Arr(<<ToolCall(Str(FooName), Str(XOneText))>>)),
                      Str(<<"l", "e", "n", "g", "t", "h">>))>>), Absent)
BadArgumentsWire ==
    Wire(Arr(<<Choice(WireMessage(Null, Arr(<<ToolCall(Str(BarName), Str(TruncatedText))>>)),
                      Absent)>>), Absent)
NoChoicesWire == Wire(Arr(<<>>), Absent)
AbsentChoicesWire == Wire(Absent, Usage(Num(3), Num(2), Num(5)))

HttpOutcomes ==
    {Rejected, HttpResponse(FALSE, 500, NotJson), HttpResponse(TRUE, 200, NotJson)}
    \cup {HttpResponse(TRUE, 200, Json(d)) :
            d \in {TextWire, ToolCallWire, BadArgumentsWire, NoChoicesWire,
                   AbsentChoicesWire}}

\* the requests the callers pass
CallRequests ==
    { Request(Str(<<"a">>), Absent),
      Request(Arr(<<Turn("user", Arr(<<CallPart>>)), Turn("model", Arr(<<TextPart(<<"b">>)>>))>>),
              Config(Str(<<"a">>), Num(0), Absent, Num(9),
                     Arr(<<Tool(Arr(<<Func(FooName, Absent, Absent)>>))>>))) }

Failure(message) == [message |-> message]
HttpFailure(status) == [message |-> "HTTP error! status", status |-> status]

Init ==
    /\ CallsIdle
    /\ fnArg = NoValue
    /\ fnRes = NoValue
    /\ fnPc = "off"

\* headers: Content-Type, and Authorization when this.apiKey is truthy
requestHeaders ==
    IF Truthy(adapter.apiKey)
    THEN [ContentType |-> "application/json", Authorization |-> <<"Bearer ", adapter.apiKey.s>>]
    ELSE [ContentType |-> "application/json"]

\* fetch(`${this.endpoint}/chat/completions`, {method: 'POST', headers, body})
post(request) ==
    [url |-> <<adapter.endpoint, "/chat/completions">>,
     method |-> "POST",
     headers |-> requestHeaders,
     body |-> convertToOpenAIFormat(adapter.model, request)]

\* generateContent up to `await fetch(...)`: the request is converted and POSTed
generateContent(c, request) ==
    /\ pc[c] = "idle"
    /\ op' = [op EXCEPT ![c] = "generateContent"]
    /\ req' = [req EXCEPT ![c] = request]
    /\ sent' = [sent EXCEPT ![c] = Append(@, post(request))]
    /\ pc' = [pc EXCEPT ![c] = "fetch"]
    /\ UNCHANGED <<adapter, http, result, error, yielded, fnVars>>

\* generateContentStream starts with `await this.generateContent(request)`:
\* the same steps, up to the same fetch
generateContentStream(c, request) ==
    /\ pc[c] = "idle"
    /\ op' = [op EXCEPT ![c] = "generateContentStream"]
    /\ req' = [req EXCEPT ![c] = request]
    /\ sent' = [sent EXCEPT ![c] = Append(@, post(request))]
    /\ pc' = [pc EXCEPT ![c] = "fetch"]
    /\ UNCHANGED <<adapter, http, result, error, yielded, fnVars>>

\* a plausible slip: a rejected fetch is sent again
fetchSettlesRetrying(c, outcome) ==
    /\ pc[c] = "fetch"
    /\ http' = [http EXCEPT ![c] = outcome]
    /\ IF outcome.t = "rejected"
       THEN /\ Len(sent[c]) < 2
            /\ sent' = [sent EXCEPT ![c] = Append(@, post(req[c]))]
            /\ UNCHANGED <<pc, error>>
       ELSE /\ pc' = [pc EXCEPT ![c] = IF outcome.ok THEN "json" ELSE "text"]
            /\ UNCHANGED <<sent, error>>
    /\ UNCHANGED <<adapter, op, req, result, yielded, fnVars>>

\* `await fetch(...)` settles: a rejection is caught, logged and thrown again;
\* a response is read as text (not ok) or as JSON (ok)
fetchSettles(c, outcome) ==
    /\ pc[c] = "fetch"
    /\ http' = [http EXCEPT ![c] = outcome]
    /\ IF outcome.t = "rejected"
       THEN /\ pc' = [pc EXCEPT ![c] = "failed"]
            /\ error' = [error EXCEPT ![c] = Failure("fetch failed")]
       ELSE /\ pc' = [pc EXCEPT ![c] = IF outcome.ok THEN "json" ELSE "text"]
            /\ UNCHANGED error
    /\ UNCHANGED <<adapter, op, req, sent, result, yielded, fnVars>>

\* `await response.text()` settles and the HTTP error is thrown
textSettles(c) ==
    /\ pc[c] = "text"
    /\ pc' = [pc EXCEPT ![c] = "failed"]
    /\ error' = [error EXCEPT ![c] = HttpFailure(http[c].status)]
    /\ UNCHANGED <<adapter, op, req, sent, http, result, yielded, fnVars>>

\* `await response.json()` settles: a body that is not JSON rejects; the data
\* is decoded, and the method resolves with the response (generateContent) or
\* with a generator holding it (generateContentStream)
jsonSettles(c) ==
    /\ pc[c] = "json"
    /\ LET decoded == IF http[c].body.t = "json"
                      THEN convertFromOpenAIFormat(http[c].body.data)
                      ELSE Throw("SyntaxError")
       IN IF decoded.t = "throw"
          THEN /\ pc' = [pc EXCEPT ![c] = "failed"]
               /\ error' = [error EXCEPT ![c] = Failure(decoded.message)]
               /\ UNCHANGED result
          ELSE /\ pc' = [pc EXCEPT ![c] = IF op[c] = "generateContentStream"
                                         THEN "generatorStart" ELSE "resolved"]
               /\ result' = [result EXCEPT ![c] =
                                IF op[c] = "generateContentStream"
                                THEN [t |-> "generator", response |-> decoded.value]
                                ELSE decoded.value]
               /\ UNCHANGED error
    /\ UNCHANGED <<adapter, op, req, sent, http, yielded, fnVars>>

\* a plausible slip: the generator yields the response on every next()
generatorNextRepeating(c) ==
    /\ pc[c] \in {"generatorStart", "generatorYielded"}
    /\ Len(yielded[c]) < 2
    /\ yielded' = [yielded EXCEPT ![c] = Append(@, result[c].response)]
    /\ pc' = [pc EXCEPT ![c] = "generatorYielded"]
    /\ UNCHANGED <<adapter, op, req, sent, http, result, error, fnVars>>

\* the consumer calls next() on `(async function* () { yield response; })()`:
\* the first call yields the response, the second finds the generator done
generatorNext(c) ==
    /\ pc[c] \in {"generatorStart", "generatorYielded"}
    /\ IF pc[c] = "generatorStart"
       THEN /\ yielded' = [yielded EXCEPT ![c] = Append(@, result[c].response)]
            /\ pc' = [pc EXCEPT ![c] = "generatorYielded"]
       ELSE /\ pc' = [pc EXCEPT ![c] = "generatorDone"]
            /\ UNCHANGED yielded
    /\ UNCHANGED <<adapter, op, req, sent, http, result, error, fnVars>>

\* async countTokens(request): resolves with the estimate
countTokensCall(c, request) ==
    /\ pc[c] = "idle"
    /\ op' = [op EXCEPT ![c] = "countTokens"]
    /\ req' = [req EXCEPT ![c] = request]
    /\ result' = [result EXCEPT ![c] = countTokens(request)]
    /\ pc' = [pc EXCEPT ![c] = "resolved"]
    /\ UNCHANGED <<adapter, sent, http, error, yielded, fnVars>>

\* a plausible slip: embeddings resolve with an empty list
embedContentEmpty(c, request) ==
    /\ pc[c] = "idle"
    /\ op' = [op EXCEPT ![c] = "embedContent"]
    /\ req' = [req EXCEPT ![c] = request]
    /\ result' = [result EXCEPT ![c] = [embeddings |-> <<>>]]
    /\ pc' = [pc EXCEPT ![c] = "resolved"]
    /\ UNCHANGED <<adapter, sent, http, error, yielded, fnVars>>

\* async embedContent(request): throws
embedContent(c, request) ==
    /\ pc[c] = "idle"
    /\ op' = [op EXCEPT ![c] = "embedContent"]
    /\ req' = [req EXCEPT ![c] = request]
    /\ pc' = [pc EXCEPT ![c] = "failed"]
    /\ error' = [error EXCEPT ![c] = Failure("Embeddings not supported by local LLM")]
    /\ UNCHANGED <<adapter, sent, http, result, yielded, fnVars>>

Next ==
    \E c \in Calls :
        \/ \E request \in CallRequests : generateContent(c, request)
        \/ \E request \in CallRequests : generateContentStream(c, request)
        \/ \E request \in CallRequests : countTokensCall(c, request)
        \/ \E request \in CallRequests : embedContent(c, request)
        \/ \E outcome \in HttpOutcomes : fetchSettles(c, outcome)
        \/ textSettles(c)
        \/ jsonSettles(c)
        \/ generatorNext(c)

Spec == Init /\ [][Next]_vars

Generating == {"generateContent", "generateContentStream"}
Settled == {"resolved", "failed", "generatorStart", "generatorYielded", "generatorDone"}

\* C1 (as stated): for every request, a generateContentStream call that has
\* ended has yielded exactly one item.
C1_StreamAlwaysYieldsOne ==
    \A c \in Calls :
        (op[c] = "generateContentStream" /\ pc[c] \in {"failed", "generatorDone"})
            => Len(yielded[c]) = 1

\* C1 (amended): when the generateContent call inside generateContentStream
\* succeeds, the sequence yields exactly one item and then completes, and the
\* item is what generateContent returns for the same request and the same wire
\* response; at no time has it yielded more than one item.  When that call
\* fails, generateContentStream fails with its error and yields nothing.
C1_StreamYieldsTheOneResponse ==
    \A c \in Calls :
        op[c] = "generateContentStream" =>
            /\ Len(yielded[c]) <= 1
            /\ pc[c] \in {"generatorYielded", "generatorDone"} <=> Len(yielded[c]) = 1
            /\ pc[c] = "failed" => (result[c] = NoValue /\ error[c] # NoValue)
            /\ \A d \in Calls :
                 ( /\ Len(yielded[c]) = 1
                   /\ op[d] = "generateContent" /\ pc[d] \in {"resolved", "failed"}
                   /\ req[d] = req[c] /\ http[d] = http[c] )
                 => (pc[d] = "resolved" /\ result[d] = yielded[c][1])

\* a stream that yielded its one item and completed, beside a generateContent
\* call that resolved for the same request and the same wire response
C1_Witness ==
    \E c, d \in Calls :
        /\ op[c] = "generateContentStream" /\ pc[c] = "generatorDone"
        /\ op[d] = "generateContent" /\ pc[d] = "resolved"
        /\ req[d] = req[c] /\ http[d] = http[c]
        /\ yielded[c] = <<result[d]>>

\* the wire response a call received has no choices[0]
noPrimaryChoice(c) ==
    /\ http[c].t = "response" /\ http[c].ok /\ http[c].body.t = "json"
    /\ LET choices == field(http[c].body.data, "choices")
       IN choices.t # "arr" \/ choices.items = <<>> \/ ~Truthy(choices.items[1])

\* a neutral response with all its parts: one candidate with content and
\* finish reason, usage, text and functionCalls
completeResponse(r) ==
    /\ DOMAIN r = {"candidates", "usageMetadata", "text", "functionCalls"}
    /\ Len(r.candidates) = 1
    /\ r.candidates[1].content.parts # <<>>
    /\ r.candidates[1].finishReason # <<>>

\* C6: a generateContent call whose wire response has no choices[0] fails and
\* returns no neutral response; every generateContent call that has ended has
\* either one complete neutral response and no error, or an error and no
\* response.
C6_CompleteResponseOrFailure ==
    \A c \in Calls :
        op[c] = "generateContent" =>
            /\ pc[c] = "resolved" => (completeResponse(result[c]) /\ error[c] = NoValue)
            /\ pc[c] = "failed" => (result[c] = NoValue /\ error[c] # NoValue)
            /\ (noPrimaryChoice(c) /\ pc[c] \in Settled)
                  => ( /\ pc[c] = "failed"
                       /\ error[c] = Failure("No choices in OpenAI response") )

\* a call that received `choices: []` and failed
C6_Witness ==
    \E c \in Calls :
        /\ op[c] = "generateContent" /\ pc[c] = "failed"
        /\ http[c] = HttpResponse(TRUE, 200, Json(NoChoicesWire))
        /\ result[c] = NoValue

\* C7: every embedContent call fails with the unsupported-operation error and
\* returns nothing, and neither embedContent nor countTokens sends an HTTP
\* request.
C7_EmbedFailsAndNoTransport ==
    \A c \in Calls :
        /\ op[c] = "embedContent" =>
              /\ pc[c] = "failed"
              /\ error[c] = Failure("Embeddings not supported by local LLM")
              /\ result[c] = NoValue
        /\ op[c] \in {"embedContent", "countTokens"} =>
              (sent[c] = <<>> /\ http[c] = NoValue)

\* an embedContent call that failed beside a countTokens call that resolved
C7_Witness ==
    \E c, d \in Calls :
        /\ op[c] = "embedContent" /\ pc[c] = "failed"
        /\ op[d] = "countTokens" /\ pc[d] = "resolved"

\* the transport failed: fetch rejected, or the status is not 2xx
transportFailed(c) ==
    http[c].t = "rejected" \/ (http[c].t = "response" /\ ~http[c].ok)

\* C8: in every interleaving, a generateContent (or generateContentStream)
\* call has sent exactly one POST, the one for its own request, from the moment
\* it starts and also after a failure; a transport failure ends the call with
\* that failure; and two calls of the same method with the same request and
\* the same HTTP response end the same way.
C8_OnePostNoRetryOwnOutcome ==
    \A c \in Calls :
        op[c] \in Generating =>
            /\ Len(sent[c]) = 1
            /\ sent[c][1].method = "POST"
            /\ sent[c][1].body = convertToOpenAIFormat(adapter.model, req[c])
            /\ (transportFailed(c) /\ pc[c] # "text") =>
                  /\ pc[c] = "failed"
                  /\ result[c] = NoValue
                  /\ error[c] = IF http[c].t = "rejected" THEN Failure("fetch failed")
                                ELSE HttpFailure(http[c].status)
            /\ \A d \in Calls :
                 ( /\ op[d] = op[c] /\ req[d] = req[c] /\ http[d] = http[c]
                   /\ {pc[c], pc[d]} \subseteq {"resolved", "failed", "generatorStart"} )
                 => (pc[d] = pc[c] /\ result[d] = result[c] /\ error[d] = error[c])

\* two concurrent calls, one failed on HTTP 500 and one resolved, one POST each
C8_Witness ==
    \E c, d \in Calls :
        /\ op[c] = "generateContent" /\ pc[c] = "failed"
        /\ http[c] = HttpResponse(FALSE, 500, NotJson)
        /\ op[d] = "generateContent" /\ pc[d] = "resolved"
        /\ Len(sent[c]) = 1 /\ Len(sent[d]) = 1

====
